---- MODULE Spec2Model ----
(***************************************************************************)
(* Execution and result-tracking engine of the CMTL tool launcher:         *)
(* tool_launcher.py (load_config, append_result, write_log,                *)
(* is_executable_available, run_command_capture, run_tool_cli,             *)
(* run_all_cli, the GUI worker threads) and Script/logging_utils.py,       *)
(* Script/init_output.py.                                                  *)
(*                                                                         *)
(* Text that the code takes apart (tool names) is a sequence of one-       *)
(* character strings; text it only passes on is a TLA+ string.  A file is  *)
(* a sequence of tokens, so that json.dump / json.load are a real          *)
(* serialisation and a real parse.                                         *)
(***************************************************************************)
EXTENDS Integers, Sequences, FiniteSets, TLC

VARIABLES
    CONFIG,       \* the registry loaded at start-up: [tools, paths]
    PATH,         \* executable names that shutil.which resolves
    exec_files,   \* absolute paths that exist and are executable
    disk,         \* the files of the output directory: path -> token sequence
    now,          \* the clock read by now_ts()
    ops,          \* operations the session still starts
    pc,           \* position of the CLI thread
    tool_list,    \* run_all_cli: the list being iterated
    i,            \* run_all_cli: position in tool_list (1-based)
    summary,      \* run_all_cli: the summary built so far
    disk0,        \* history: the files as the session found them
    run_base,     \* history: what the ledger loaded to when the run started
    last_call,    \* history: the tool and effect of the latest run_tool_cli
    workers,      \* GUI worker threads: id -> local state
    wr,           \* the append interrupted/observed at write granularity
    calls,        \* history: the calls made to the function under test, with what they returned
    heap          \* the objects behind DEFAULT_CONFIG and the registry load_config returned

vars == <<CONFIG, PATH, exec_files, disk, now, ops, pc, tool_list, i, summary,
          disk0, run_base, last_call, workers, wr, calls, heap>>

(***************************************************************************)
(* Bounds of the model.                                                    *)
(***************************************************************************)
MaxTools == 2      \* length of the registries tried
MaxOps == 2        \* operations one CLI session starts
MaxAppends == 2    \* appends followed at write granularity
NumWorkers == 2    \* GUI worker threads alive at once
MaxCalls == 2      \* calls made to one function under test

(***************************************************************************)
(* Text                                                                    *)
(***************************************************************************)
UPPER == <<"A","B","C","D","E","F","G","H","I","J","K","L","M",
           "N","O","P","Q","R","S","T","U","V","W","X","Y","Z">>
LOWER == <<"a","b","c","d","e","f","g","h","i","j","k","l","m",
           "n","o","p","q","r","s","t","u","v","w","x","y","z">>

UpperSet == {UPPER[k] : k \in DOMAIN UPPER}
LowerOf == [c \in UpperSet |-> LOWER[CHOOSE k \in DOMAIN UPPER : UPPER[k] = c]]

LowerChar(c) == IF c \in UpperSet THEN LowerOf[c] ELSE c

\* str.lower()
Lower(s) == [k \in 1..Len(s) |-> LowerChar(s[k])]

\* str.replace(" ", "_")
ReplaceSpaces(s) == [k \in 1..Len(s) |-> IF s[k] = " " THEN "_" ELSE s[k]]

\* str.split(): the words of s, whitespace-separated, empty words dropped
RECURSIVE Split(_)
Split(s) ==
    IF s = <<>> THEN <<>>
    ELSE IF Head(s) = " " THEN Split(Tail(s))
    ELSE LET n == IF \E k \in 1..Len(s) : s[k] = " "
                  THEN (CHOOSE k \in 1..Len(s) :
                            s[k] = " " /\ \A j \in 1..(k-1) : s[j] # " ") - 1
                  ELSE Len(s)
         IN  <<SubSeq(s, 1, n)>> \o Split(SubSeq(s, n + 1, Len(s)))

PATH_SUFFIX == <<"_","p","a","t","h">>
LOG_SUFFIX == <<".","l","o","g">>

\* tool_name.lower().replace(" ", "_"), the log file's stem
SafeName(tool_name) == ReplaceSpaces(Lower(tool_name))

(***************************************************************************)
(* Python values that a command definition can hold.  A token of a list is *)
(* [str, v]: a string v, or a non-string value printed as v.               *)
(***************************************************************************)
S(v) == [str |-> TRUE, v |-> v]
NonStr(v) == [str |-> FALSE, v |-> v]

PyNone == [kind |-> "none", toks |-> <<>>]
PyList(toks) == [kind |-> "list", toks |-> toks]
PyStr(v) == [kind |-> "str", toks |-> <<S(v)>>]
PyNum(v) == [kind |-> "num", toks |-> <<NonStr(v)>>]
PyDict(v) == [kind |-> "dict", toks |-> <<NonStr(v)>>]

\* bool(token)
TokTruthy(tok) == IF tok.str THEN tok.v # "" ELSE tok.v \notin {"0", "{}", "[]", "None"}

\* bool(value): None, "", 0, [] and {} are false
Truthy(val) ==
    CASE val.kind = "none" -> FALSE
      [] val.kind = "list" -> Len(val.toks) > 0
      [] OTHER -> TokTruthy(val.toks[1])

\* dict.get(key, default) on a mapping kept as a function
DictGet(d, key, default) == IF key \in DOMAIN d THEN d[key] ELSE default

\* dict.get(key) on an ordered mapping kept as a sequence of [name, cmd]
ToolsGet(tools, name) ==
    IF \E k \in 1..Len(tools) : tools[k].name = name
    THEN tools[CHOOSE k \in 1..Len(tools) : tools[k].name = name].cmd
    ELSE PyNone

\* faulty variant: the keys in reverse insertion order
KeysReversed(tools) == [k \in 1..Len(tools) |-> tools[Len(tools) + 1 - k].name]

\* list(dict.keys()): the names in insertion order
Keys(tools) == [k \in 1..Len(tools) |-> tools[k].name]

(***************************************************************************)
(* Files.  A path is [dir, name]; disk maps the paths that exist to their  *)
(* content, a sequence of tokens.                                          *)
(***************************************************************************)
RESULTS_JSON == [dir |-> "output", name |-> <<"r","e","s","u","l","t","s",".","j","s","o","n">>]

LogPath(safe) == [dir |-> "output/logs", name |-> safe \o LOG_SUFFIX]

Exists(d, path) == path \in DOMAIN d

\* the ledger file as a reader finds it: <<content>>, or <<>> when missing
FileOf(d) == IF RESULTS_JSON \in DOMAIN d THEN <<d[RESULTS_JSON]>> ELSE <<>>

\* open(path, "w") ... close(): the file holds exactly data
WriteFile(d, path, data) == (path :> data) @@ d

\* open(path, "a") ... close(): data follows what the file held
AppendFile(d, path, data) ==
    (path :> ((IF Exists(d, path) THEN d[path] ELSE <<>>) \o data)) @@ d

(***************************************************************************)
(* JSON text as tokens: "[" and "]" delimit an array, an "obj" token is    *)
(* one serialised object, "num" a bare number, "junk" text that is no JSON.*)
(***************************************************************************)
LB == [t |-> "["]
RB == [t |-> "]"]
Obj(r) == [t |-> "obj", v |-> r]
Junk == [t |-> "junk"]
Num == [t |-> "num"]

IsValue(tok) == tok.t \in {"obj", "num"}

\* the JSON text of one element: a dict is an object, a number stays a number
ToTok(v) == IF "t" \in DOMAIN v THEN v ELSE Obj(v)

\* json.dump(list, f, indent=2)
JsonDump(list) == <<LB>> \o [k \in 1..Len(list) |-> ToTok(list[k])] \o <<RB>>

\* json.load(f): [raised, is_list, value]
JsonLoad(data) ==
    IF /\ Len(data) >= 2
       /\ data[1] = LB
       /\ data[Len(data)] = RB
       /\ \A k \in 2..(Len(data) - 1) : IsValue(data[k])
    THEN [raised |-> FALSE, is_list |-> TRUE,
          value |-> [k \in 1..(Len(data) - 2) |->
                        IF data[k + 1].t = "obj" THEN data[k + 1].v ELSE data[k + 1]]]
    ELSE IF Len(data) = 1 /\ IsValue(data[1])
    THEN [raised |-> FALSE, is_list |-> FALSE, value |-> <<>>]
    ELSE [raised |-> TRUE, is_list |-> FALSE, value |-> <<>>]

(***************************************************************************)
(* The result ledger, tool_launcher.append_result                          *)
(***************************************************************************)
\* lines 160-168: the list the append starts from
append_result_read(d) ==
    IF ~Exists(d, RESULTS_JSON) THEN <<>>
    ELSE LET p == JsonLoad(d[RESULTS_JSON])
         IN  IF p.raised THEN <<>>
             ELSE IF ~p.is_list THEN <<>>
             ELSE p.value

\* lines 170-174: the whole list is written back over the file
append_result_write(d, results) == WriteFile(d, RESULTS_JSON, JsonDump(results))

\* faulty variant: the new record is put in front of the list
append_result_prepend(d, result_obj) ==
    append_result_write(d, <<result_obj>> \o append_result_read(d))

\* faulty variant: the record is written at the end of the file as it is (append mode)
append_result_raw(d, result_obj) == AppendFile(d, RESULTS_JSON, <<Obj(result_obj)>>)

append_result(d, result_obj) ==
    append_result_write(d, Append(append_result_read(d), result_obj))

(***************************************************************************)
(* logging_utils.append_result and write_tool_log                          *)
(***************************************************************************)
\* lines 30-32: the file is created as [] when missing
lu_ensure_file(d) ==
    IF ~Exists(d, RESULTS_JSON) THEN WriteFile(d, RESULTS_JSON, JsonDump(<<>>)) ELSE d

\* lines 34-40
lu_append_result_read(d) ==
    LET p == JsonLoad(d[RESULTS_JSON])
    IN  IF p.raised THEN <<>>
        ELSE IF ~p.is_list THEN <<>>
        ELSE p.value

lu_append_result(d, result_obj) ==
    LET d1 == lu_ensure_file(d)
    IN  WriteFile(d1, RESULTS_JSON, JsonDump(Append(lu_append_result_read(d1), result_obj)))

LogBlock(t, text) == [t |-> "block", time |-> t, text |-> text]

\* open(path, "a") fails: the environment refuses it, or the name leads into a missing directory
OpenFails(safe, io) == io # "ok" \/ \E k \in 1..Len(safe) : safe[k] = "/"

\* tool_launcher.write_log on any arguments: [raised, path, disk]; tool_name and text are
\* tokens [str, v], io is what the file system does
write_log_of(d, tool_name, text, t, io) ==
    IF ~tool_name.str
    THEN [raised |-> TRUE, path |-> <<>>, disk |-> d]         \* .lower(): AttributeError, no try
    ELSE LET path == LogPath(SafeName(tool_name.v))
         IN  IF OpenFails(SafeName(tool_name.v), io)
             THEN [raised |-> FALSE, path |-> <<path>>, disk |-> d]   \* except Exception: pass
             ELSE [raised |-> FALSE, path |-> <<path>>,
                   disk |-> AppendFile(d, path, <<LogBlock(t, text.v)>>)]

\* logging_utils.write_tool_log on any arguments: [raised, path, disk]
write_tool_log_of(d, tool_name, text, t, io) ==
    IF io # "ok" THEN [raised |-> TRUE, path |-> <<>>, disk |-> d]    \* os.makedirs / open: OSError
    ELSE IF ~tool_name.str
    THEN [raised |-> TRUE, path |-> <<>>, disk |-> d]         \* .lower(): AttributeError
    ELSE LET path == LogPath(SafeName(tool_name.v))
         IN  IF OpenFails(SafeName(tool_name.v), io)
             THEN [raised |-> TRUE, path |-> <<path>>, disk |-> d]
             ELSE [raised |-> FALSE, path |-> <<path>>,
                   disk |-> AppendFile(d, path,
                                <<LogBlock(t, IF text = NonStr("None") THEN "" ELSE text.v)>>)]

\* tool_launcher.write_log on a tool's name, with the log directory writable
write_log(d, tool_name, text, t) == write_log_of(d, S(tool_name), S(text), t, "ok").disk

\* logging_utils.write_tool_log on a tool's name, with the log directory writable
write_tool_log(d, tool_name, text, t) == write_tool_log_of(d, S(tool_name), S(text), t, "ok").disk

(***************************************************************************)
(* Availability check and process executor                                 *)
(***************************************************************************)
\* os.path.isabs on a string
IsAbs(exe) == exe \in {"/opt/nmap/nmap", "/opt/missing/nmap"}

\* faulty variant: every locator is looked up on the search path
is_executable_available_path_only(cmd) ==
    IF ~Truthy(cmd) THEN [raised |-> FALSE, value |-> FALSE]
    ELSE LET exe == cmd.toks[1]
         IN  IF ~TokTruthy(exe) THEN [raised |-> FALSE, value |-> FALSE]
             ELSE IF ~exe.str THEN [raised |-> TRUE, value |-> FALSE]
             ELSE [raised |-> FALSE, value |-> exe.v \in PATH]

\* is_executable_available(cmd): [raised, value]
is_executable_available(cmd) ==
    IF ~Truthy(cmd) THEN [raised |-> FALSE, value |-> FALSE]
    ELSE LET exe == cmd.toks[1]      \* cmd[0] of a list, else cmd itself
         IN  IF ~TokTruthy(exe) THEN [raised |-> FALSE, value |-> FALSE]
             ELSE IF ~exe.str THEN [raised |-> TRUE, value |-> FALSE]   \* os.path.isabs: TypeError
             ELSE IF IsAbs(exe.v) THEN [raised |-> FALSE, value |-> exe.v \in exec_files]
             ELSE [raised |-> FALSE, value |-> exe.v \in PATH]

\* what subprocess.run can do with a command
Outcomes == {"exit0", "exit1", "FileNotFoundError", "TimeoutExpired"}

\* run_command_capture(cmd_list): [ok, out, spawned]
run_command_capture(cmd_list, outcome) ==
    CASE outcome = "exit0" -> [ok |-> TRUE, out |-> "stdout", spawned |-> TRUE]
      [] outcome = "exit1" -> [ok |-> FALSE, out |-> "stdout\nERR:\nstderr", spawned |-> TRUE]
      [] outcome = "FileNotFoundError" -> [ok |-> FALSE, out |-> "Command not found", spawned |-> FALSE]
      [] outcome = "TimeoutExpired" -> [ok |-> FALSE, out |-> "Command timed out.", spawned |-> TRUE]
      [] OTHER -> [ok |-> FALSE, out |-> "str(e)", spawned |-> FALSE]

\* what subprocess.run can do, with the child's exit code and output made explicit
Executions ==
    [kind : {"exit"}, code : {0, 1, 2}, stdout : {"", "open"}, stderr : {"", "warning"}]
    \cup [kind : {"FileNotFoundError", "TimeoutExpired", "PermissionError"},
          code : {0}, stdout : {""}, stderr : {""}]

\* run_command_capture(cmd_list) over such an execution; out is the list of the pieces joined
run_command_capture_of(cmd_list, x) ==
    CASE x.kind = "exit" ->
           [ok |-> (x.code = 0),
            out |-> <<x.stdout>> \o (IF x.stderr # "" THEN <<"\nERR:\n", x.stderr>> ELSE <<>>),
            spawned |-> TRUE]
      [] x.kind = "FileNotFoundError" ->
           [ok |-> FALSE,
            out |-> <<"Command not found: ", IF cmd_list # <<>> THEN cmd_list[1] ELSE "">>,
            spawned |-> FALSE]
      [] x.kind = "TimeoutExpired" ->
           [ok |-> FALSE, out |-> <<"Command timed out.">>, spawned |-> TRUE]
      [] OTHER -> [ok |-> FALSE, out |-> <<"str(e): ", x.kind>>, spawned |-> FALSE]

(***************************************************************************)
(* run_tool_cli: what one call does, as an effect                          *)
(*   raised   an exception leaves the function                             *)
(*   ok, out  the returned pair                                            *)
(*   checked  is_executable_available was called                           *)
(*   spawned  a child process was started                                  *)
(*   logs     the write_log calls made, in order                           *)
(*   recs     the append_result calls made, in order                       *)
(***************************************************************************)
Effect(raised, ok, out, checked, spawned, logs, recs) ==
    [raised |-> raised, ok |-> ok, out |-> out, checked |-> checked,
     spawned |-> spawned, logs |-> logs, recs |-> recs]

\* " ".join(final_cmd), kept as the sequence of the joined words
Join(toks) == [k \in 1..Len(toks) |-> toks[k].v]

\* lines 354-367: the command actually run
final_cmd_of(tool_name, cmd, extra_args) ==
    LET key == Split(Lower(tool_name))[1] \o PATH_SUFFIX
        explicit == DictGet(CONFIG.paths, key, S(""))
    IN  IF TokTruthy(explicit) /\ explicit.str
        THEN PyList(<<explicit>> \o extra_args)
        ELSE IF cmd.kind = "list"
        THEN PyList(cmd.toks \o extra_args)
        ELSE PyList(<<cmd.toks[1]>> \o extra_args)

\* faulty variant: a tool without launcher is refused without a record, as launch_tool_gui does
run_tool_cli_unrecorded(tool_name, extra_args, outcome, t) ==
    LET cmd == ToolsGet(CONFIG.tools, tool_name)
    IN  IF ~Truthy(cmd)
        THEN Effect(FALSE, FALSE, "No local launcher defined.", FALSE, FALSE, <<>>, <<>>)
        ELSE IF Split(Lower(tool_name)) = <<>>
        THEN Effect(TRUE, FALSE, "IndexError", FALSE, FALSE, <<>>, <<>>)
        ELSE LET final_cmd == final_cmd_of(tool_name, cmd, extra_args)
                 avail == is_executable_available(final_cmd)
                 run == run_command_capture(final_cmd, outcome)
             IN  IF avail.raised
                 THEN Effect(TRUE, FALSE, "TypeError", TRUE, FALSE, <<>>, <<>>)
                 ELSE IF ~avail.value
                 THEN Effect(FALSE, FALSE, "Executable not found", TRUE, FALSE, <<>>, <<>>)
                 ELSE IF \E k \in 1..Len(final_cmd.toks) : ~final_cmd.toks[k].str
                 THEN Effect(TRUE, FALSE, "TypeError", TRUE, FALSE, <<>>, <<>>)
                 ELSE Effect(FALSE, run.ok, run.out, TRUE, run.spawned,
                             <<[tool |-> tool_name, text |-> run.out]>>,
                             <<[tool |-> tool_name, cmd |-> Join(final_cmd.toks), time |-> t,
                                success |-> run.ok, output_preview |-> run.out]>>)

run_tool_cli(tool_name, extra_args, outcome, t) ==
    LET cmd == ToolsGet(CONFIG.tools, tool_name)
    IN  IF ~Truthy(cmd)
        THEN Effect(FALSE, FALSE, "No local launcher defined for this tool.", FALSE, FALSE, <<>>,
                    <<[tool |-> tool_name, status |-> "no-launcher", time |-> t,
                       note |-> "No local launcher defined"]>>)
        ELSE IF Split(Lower(tool_name)) = <<>>
        THEN Effect(TRUE, FALSE, "IndexError", FALSE, FALSE, <<>>, <<>>)
        ELSE LET final_cmd == final_cmd_of(tool_name, cmd, extra_args)
                 avail == is_executable_available(final_cmd)
                 run == run_command_capture(final_cmd, outcome)
             IN  IF avail.raised
                 THEN Effect(TRUE, FALSE, "TypeError", TRUE, FALSE, <<>>, <<>>)
                 ELSE IF ~avail.value
                 THEN Effect(FALSE, FALSE, "Executable not found", TRUE, FALSE, <<>>, <<>>)
                 ELSE IF \E k \in 1..Len(final_cmd.toks) : ~final_cmd.toks[k].str
                 THEN Effect(TRUE, FALSE, "TypeError", TRUE, FALSE, <<>>, <<>>)  \* " ".join
                 ELSE Effect(FALSE, run.ok, run.out, TRUE, run.spawned,
                             <<[tool |-> tool_name, text |-> run.out]>>,
                             <<[tool |-> tool_name, cmd |-> Join(final_cmd.toks), time |-> t,
                                success |-> run.ok, output_preview |-> run.out]>>)

\* the files after the effect's log and ledger writes
RECURSIVE ApplyLogs(_, _, _)
ApplyLogs(d, logs, t) ==
    IF logs = <<>> THEN d
    ELSE ApplyLogs(write_log(d, Head(logs).tool, Head(logs).text, t), Tail(logs), t)

RECURSIVE ApplyRecs(_, _)
ApplyRecs(d, recs) ==
    IF recs = <<>> THEN d ELSE ApplyRecs(append_result(d, Head(recs)), Tail(recs))

(***************************************************************************)
(* The configurations and environments tried                               *)
(***************************************************************************)
Nmap == <<"N","m","a","p">>
QualysGuard == <<"Q","u","a","l","y","s","G","u","a","r","d">>
BurpSuite == <<"B","u","r","p"," ","S","u","i","t","e">>
Kismet == <<"K","i","s","m","e","t">>
Sparta == <<"S","p","a","r","t","a">>
nmap_path == <<"n","m","a","p","_","p","a","t","h">>
mini_port_scanner_name == <<"m","i","n","i","_","p","o","r","t","_","s","c","a","n","n","e","r">>
run_all_cli_name == <<"r","u","n","_","a","l","l","_","c","l","i">>

\* entries a config.json can hold under "tools": the defaults for Nmap and
\* QualysGuard, a single string (not installed), a number, a list with a
\* number in it
ToolPool ==
    { [name |-> Nmap, cmd |-> PyList(<<S("nmap")>>)],
      [name |-> QualysGuard, cmd |-> PyList(<<>>)],
      [name |-> BurpSuite, cmd |-> PyStr("burpsuite")],
      [name |-> Kismet, cmd |-> PyNum("5")],
      [name |-> Sparta, cmd |-> PyList(<<S("sparta"), NonStr("5")>>)] }

RECURSIVE Registries(_)
Registries(n) ==
    IF n = 0 THEN {<<>>}
    ELSE LET shorter == Registries(n - 1)
         IN  shorter \cup
             { Append(r, e) : r \in {x \in shorter : Len(x) = n - 1},
                              e \in ToolPool }

Distinct(r) == \A a, b \in 1..Len(r) : a # b => r[a].name # r[b].name

PathChoices == { (nmap_path :> S("")), (nmap_path :> S("/opt/nmap/nmap")) }

OldRecord == [tool |-> Nmap, time |-> 0, launched |-> TRUE]

\* what results.json can hold when the session starts: nothing (its creation
\* failed silently), the empty array, an earlier record, a JSON object,
\* text that is no JSON
LedgerChoices ==
    { <<>> :> <<>>,
      RESULTS_JSON :> JsonDump(<<>>),
      RESULTS_JSON :> JsonDump(<<OldRecord>>),
      RESULTS_JSON :> <<Obj(OldRecord)>>,
      RESULTS_JSON :> <<LB, Obj(OldRecord), Junk>> }

NoWrite == [pc |-> "idle", results |-> <<>>, rec |-> [tool |-> <<>>], todo |-> <<>>,
            old |-> <<>>, n |-> 0]
IdleWorker == [pc |-> "idle", kind |-> "none", tool_list |-> <<>>, i |-> 0, summary |-> <<>>,
               rec |-> [tool |-> <<>>], results |-> <<>>, sent |-> <<>>]

InitLocals ==
    /\ exec_files = {"/opt/nmap/nmap"}
    /\ PATH = {"nmap", "sparta"}
    /\ now = 1
    /\ disk0 = disk
    /\ pc = "menu"
    /\ tool_list = <<>>
    /\ i = 0
    /\ summary = <<>>
    /\ run_base = <<>>
    /\ last_call = <<>>
    /\ workers = [w \in 1..NumWorkers |-> IdleWorker]
    /\ wr = NoWrite
    /\ calls = <<>>
    /\ heap = <<>>

\* a session of two operations over any registry; the ledger holds an earlier record or is corrupt
Init ==
    /\ CONFIG \in [tools : {r \in Registries(MaxTools) : Distinct(r)}, paths : PathChoices]
    /\ disk \in {RESULTS_JSON :> JsonDump(<<OldRecord>>), RESULTS_JSON :> <<LB, Obj(OldRecord), Junk>>}
    /\ ops = 2
    /\ InitLocals

\* a session of MaxOps operations over the default entries; the ledger file is in any condition
InitLedger ==
    /\ CONFIG = [tools |-> << [name |-> Nmap, cmd |-> PyList(<<S("nmap")>>)],
                             [name |-> QualysGuard, cmd |-> PyList(<<>>)] >>,
                 paths |-> (nmap_path :> S(""))]
    /\ disk \in LedgerChoices
    /\ ops = MaxOps
    /\ InitLocals

(***************************************************************************)
(* The CLI session (cli_menu): one thread, one operation at a time         *)
(***************************************************************************)
AtMenu == pc \in {"menu", "run_all_done", "tool_done", "mini_done", "script_done"}

gui_vars == <<workers, wr>>
env_vars == <<CONFIG, PATH, exec_files, disk0, calls, heap>>

\* cli_menu option 3 -> run_all_cli(), lines 399-400
CliRunAll ==
    /\ AtMenu /\ ops > 0
    /\ ops' = ops - 1
    /\ tool_list' = Keys(CONFIG.tools)
    /\ summary' = <<>>
    /\ i' = 1
    /\ run_base' = append_result_read(disk)
    /\ pc' = "run_all"
    /\ UNCHANGED <<env_vars, disk, now, last_call, gui_vars>>

\* run_all_cli, one turn of the loop, lines 401-405
RunAllIter ==
    /\ pc = "run_all" /\ i <= Len(tool_list)
    /\ \E outcome \in Outcomes :
         LET e == run_tool_cli(tool_list[i], <<>>, outcome, now)
         IN  /\ last_call' = <<[tool |-> tool_list[i], effect |-> e]>>
             /\ disk' = ApplyRecs(ApplyLogs(disk, e.logs, now), e.recs)
             /\ IF e.raised
                THEN /\ pc' = "raised"
                     /\ UNCHANGED <<summary, i, now>>
                ELSE /\ summary' = Append(summary, [tool |-> tool_list[i], success |-> e.ok,
                                                    time |-> now])
                     /\ i' = i + 1
                     /\ now' = now + 1          \* time.sleep(0.5)
                     /\ pc' = "run_all"
    /\ UNCHANGED <<env_vars, ops, tool_list, run_base, gui_vars>>

\* run_all_cli, lines 406-407
RunAllFinish ==
    /\ pc = "run_all" /\ i > Len(tool_list)
    /\ disk' = append_result(disk, [tool |-> run_all_cli_name, time |-> now, summary |-> summary])
    /\ pc' = "run_all_done"
    /\ UNCHANGED <<env_vars, now, ops, tool_list, i, summary, run_base, last_call, gui_vars>>

\* cli_menu option 1 -> run_tool_cli(tool_name, extra_args)
CliRunTool ==
    /\ AtMenu /\ ops > 0
    /\ ops' = ops - 1
    /\ \E k \in 1..Len(CONFIG.tools), extra_args \in {<<>>, <<S("-sV")>>}, outcome \in Outcomes :
         LET tool_name == CONFIG.tools[k].name
             e == run_tool_cli(tool_name, extra_args, outcome, now)
         IN  /\ last_call' = <<[tool |-> tool_name, effect |-> e]>>
             /\ disk' = ApplyRecs(ApplyLogs(disk, e.logs, now), e.recs)
             /\ pc' = IF e.raised THEN "raised" ELSE "tool_done"
    /\ now' = now + 1
    /\ UNCHANGED <<env_vars, tool_list, i, summary, run_base, gui_vars>>

\* mini_port_scanner, lines 255-256
mini_port_scanner(d, t) ==
    append_result(write_log(d, mini_port_scanner_name, "res_lines", t),
                  [tool |-> mini_port_scanner_name, target |-> "192.168.1.1", time |-> t,
                   output_preview |-> "res_lines"])

\* cli_menu option 2 -> mini_port_scanner(host, ports)
CliMiniTool ==
    /\ AtMenu /\ ops > 0
    /\ ops' = ops - 1
    /\ disk' = mini_port_scanner(disk, now)
    /\ now' = now + 1
    /\ pc' = "mini_done"
    /\ UNCHANGED <<env_vars, tool_list, i, summary, run_base, last_call, gui_vars>>

\* a helper script that logs through logging_utils
ScriptLog ==
    /\ AtMenu /\ ops > 0
    /\ ops' = ops - 1
    /\ disk' = lu_append_result(write_tool_log(disk, BurpSuite, "text", now),
                                [tool |-> BurpSuite, time |-> now, success |-> TRUE])
    /\ now' = now + 1
    /\ pc' = "script_done"
    /\ UNCHANGED <<env_vars, tool_list, i, summary, run_base, last_call, gui_vars>>

Next == CliRunAll \/ RunAllIter \/ RunAllFinish \/ CliRunTool

Spec == Init /\ [][Next]_vars

NextLedger == CliRunAll \/ RunAllIter \/ RunAllFinish \/ CliRunTool \/ CliMiniTool \/ ScriptLog

SpecLedger == InitLedger /\ [][NextLedger]_vars

(***************************************************************************)
(* The GUI (start_gui): each click starts a daemon thread; the threads     *)
(* share the ledger file.  A thread can be preempted between the           *)
(* statements of append_result, so its read (lines 160-168) and its write  *)
(* (lines 169-174) are separate steps.                                     *)
(***************************************************************************)
cli_vars == <<ops, pc, tool_list, i, summary, run_base, last_call>>

\* "Port Scanner" button, line 522: mini_port_scanner up to its append_result
GuiClickMiniTool(w) ==
    /\ workers[w].pc = "idle"
    /\ disk' = write_log(disk, mini_port_scanner_name, "res_lines", now)
    /\ workers' = [workers EXCEPT ![w] =
                     [@ EXCEPT !.pc = "read", !.kind = "mini",
                               !.rec = [tool |-> mini_port_scanner_name, target |-> "192.168.1.1",
                                        time |-> now, output_preview |-> "res_lines"]]]
    /\ now' = now + 1
    /\ UNCHANGED <<env_vars, cli_vars, wr>>

\* "Run All" button, line 530: run_all_cli in a thread, lines 399-400
GuiClickRunAll(w) ==
    /\ workers[w].pc = "idle"
    /\ workers' = [workers EXCEPT ![w] =
                     [@ EXCEPT !.pc = "loop", !.kind = "run_all",
                               !.tool_list = Keys(CONFIG.tools), !.i = 1, !.summary = <<>>]]
    /\ now' = now + 1
    /\ UNCHANGED <<env_vars, disk, cli_vars, wr>>

\* run_all_cli in a thread: run_tool_cli up to its append_result (the summary
\* entry of line 404 is local to the thread and is recorded with it)
GuiRunTool(w) ==
    /\ workers[w].pc = "loop" /\ workers[w].i <= Len(workers[w].tool_list)
    /\ \E outcome \in Outcomes :
         LET t == workers[w].tool_list[workers[w].i]
             e == run_tool_cli(t, <<>>, outcome, now)
             entry == [tool |-> t, success |-> e.ok, time |-> now]
         IN  /\ disk' = ApplyLogs(disk, e.logs, now)
             /\ workers' = [workers EXCEPT ![w] =
                   IF e.raised THEN [@ EXCEPT !.pc = "raised"]
                   ELSE IF e.recs = <<>>
                   THEN [@ EXCEPT !.summary = Append(@, entry), !.i = @ + 1]
                   ELSE [@ EXCEPT !.pc = "read", !.rec = e.recs[1],
                                  !.summary = Append(@, entry)]]
    /\ UNCHANGED <<env_vars, now, cli_vars, wr>>

\* run_all_cli in a thread, line 406, up to its append_result
GuiRunAllFinish(w) ==
    /\ workers[w].pc = "loop" /\ workers[w].i > Len(workers[w].tool_list)
    /\ workers' = [workers EXCEPT ![w] =
                     [@ EXCEPT !.pc = "read",
                               !.rec = [tool |-> run_all_cli_name, time |-> now,
                                        summary |-> workers[w].summary]]]
    /\ UNCHANGED <<env_vars, disk, now, cli_vars, wr>>

\* append_result, lines 160-168, in thread w
GuiAppendRead(w) ==
    /\ workers[w].pc = "read"
    /\ workers' = [workers EXCEPT ![w] =
                     [@ EXCEPT !.pc = "write", !.results = append_result_read(disk)]]
    /\ UNCHANGED <<env_vars, disk, now, cli_vars, wr>>

\* append_result, lines 169-174, in thread w; then the caller goes on
GuiAppendWrite(w) ==
    /\ workers[w].pc = "write"
    /\ disk' = append_result_write(disk, Append(workers[w].results, workers[w].rec))
    /\ workers' = [workers EXCEPT ![w] =
                     [@ EXCEPT !.sent = Append(@, workers[w].rec),
                               !.pc = IF workers[w].kind = "run_all" /\ "summary" \notin DOMAIN workers[w].rec
                                      THEN "loop" ELSE "done",
                               !.i = IF workers[w].kind = "run_all" /\ "summary" \notin DOMAIN workers[w].rec
                                     THEN @ + 1 ELSE @]]
    /\ UNCHANGED <<env_vars, now, cli_vars, wr>>

InitGui ==
    /\ CONFIG = [tools |-> << [name |-> QualysGuard, cmd |-> PyList(<<>>)],
                             [name |-> Nmap, cmd |-> PyList(<<S("nmap")>>)] >>,
                 paths |-> (nmap_path :> S(""))]
    /\ disk \in {RESULTS_JSON :> JsonDump(<<>>), RESULTS_JSON :> JsonDump(<<OldRecord>>)}
    /\ ops = 0
    /\ InitLocals

NextGui ==
    \E w \in 1..NumWorkers :
        \/ GuiClickMiniTool(w)
        \/ GuiClickRunAll(w)
        \/ GuiRunTool(w)
        \/ GuiRunAllFinish(w)
        \/ GuiAppendRead(w)
        \/ GuiAppendWrite(w)

SpecGui == InitGui /\ [][NextGui]_vars

(***************************************************************************)
(* One append followed at the granularity of its write: open(..., "w")     *)
(* empties the file, json.dump writes the text piece by piece, close ends  *)
(* it.  The process can be killed at any point in between.                 *)
(***************************************************************************)
rest_vars == <<now, ops, pc, tool_list, i, summary, run_base, last_call, workers>>

\* append_result up to open(RESULTS_JSON, "w"), in either module
WrOpen ==
    /\ wr.pc = "idle" /\ wr.n < MaxAppends
    /\ \E lib \in {"tool_launcher", "logging_utils"} :
         LET d1 == IF lib = "logging_utils" THEN lu_ensure_file(disk) ELSE disk
             results == IF lib = "logging_utils" THEN lu_append_result_read(d1)
                        ELSE append_result_read(d1)
             rec == [tool |-> Nmap, time |-> wr.n + 1, success |-> TRUE]
         IN  /\ wr' = [pc |-> "writing", results |-> results, rec |-> rec,
                       todo |-> JsonDump(Append(results, rec)), old |-> FileOf(d1),
                       n |-> wr.n + 1]
             /\ disk' = WriteFile(d1, RESULTS_JSON, <<>>)
    /\ UNCHANGED <<env_vars, rest_vars>>

\* json.dump writes the next piece
WrWrite ==
    /\ wr.pc = "writing" /\ wr.todo # <<>>
    /\ disk' = AppendFile(disk, RESULTS_JSON, <<Head(wr.todo)>>)
    /\ wr' = [wr EXCEPT !.todo = Tail(@)]
    /\ UNCHANGED <<env_vars, rest_vars>>

\* the with block ends
WrClose ==
    /\ wr.pc = "writing" /\ wr.todo = <<>>
    /\ wr' = [wr EXCEPT !.pc = "idle"]
    /\ UNCHANGED <<env_vars, disk, rest_vars>>

\* the process is killed during the write
WrKill ==
    /\ wr.pc = "writing"
    /\ wr' = [wr EXCEPT !.pc = "killed"]
    /\ UNCHANGED <<env_vars, disk, rest_vars>>

\* the launcher is started again: lines 41-48 create the file only when missing
WrRestart ==
    /\ wr.pc = "killed"
    /\ disk' = IF Exists(disk, RESULTS_JSON) THEN disk
               ELSE WriteFile(disk, RESULTS_JSON, JsonDump(<<>>))
    /\ wr' = [wr EXCEPT !.pc = "idle"]
    /\ UNCHANGED <<env_vars, rest_vars>>

InitWrite ==
    /\ CONFIG = [tools |-> <<[name |-> Nmap, cmd |-> PyList(<<S("nmap")>>)]>>,
                 paths |-> (nmap_path :> S(""))]
    /\ disk \in LedgerChoices
    /\ ops = 0
    /\ InitLocals

NextWrite == WrOpen \/ WrWrite \/ WrClose \/ WrKill \/ WrRestart

SpecWrite == InitWrite /\ [][NextWrite]_vars

(***************************************************************************)
(* What the claims observe                                                 *)
(***************************************************************************)
\* the ledger file holds a well-formed JSON array
WellFormed(d) ==
    /\ RESULTS_JSON \in DOMAIN d
    /\ LET data == d[RESULTS_JSON]
       IN  /\ Len(data) >= 2
           /\ data[1].t = "[" /\ data[Len(data)].t = "]"
           /\ \A k \in 2..(Len(data) - 1) : data[k].t \in {"obj", "num"}

\* the records a reader of the ledger file gets: none from a missing or corrupt file
Loaded(d) ==
    IF WellFormed(d)
    THEN [k \in 1..(Len(d[RESULTS_JSON]) - 2) |->
             IF d[RESULTS_JSON][k + 1].t = "obj" THEN d[RESULTS_JSON][k + 1].v
             ELSE d[RESULTS_JSON][k + 1]]
    ELSE <<>>

Ledger == Loaded(disk)

IsPrefix(a, b) == Len(a) <= Len(b) /\ SubSeq(b, 1, Len(a)) = a

\* the blocks of a tool's log file
LogOf(d, tool_name) ==
    IF LogPath(SafeName(tool_name)) \in DOMAIN d THEN d[LogPath(SafeName(tool_name))] ELSE <<>>

\* the records this run has added so far
RunRecords == SubSeq(Ledger, Len(run_base) + 1, Len(Ledger))

IsAggregate(r) == "summary" \in DOMAIN r

\* a command definition that is neither empty, nor a string, nor a list of strings
Invalid(cmd) ==
    /\ Truthy(cmd)
    /\ \/ cmd.kind \notin {"str", "list"}
       \/ \E k \in 1..Len(cmd.toks) : ~cmd.toks[k].str

InLoop == pc = "run_all" /\ i <= Len(tool_list)

(***************************************************************************)
(* C1: one run_all_cli over a registry adds exactly len(registry) + 1      *)
(* records to the ledger, whatever each tool's outcome.                    *)
(* Violated: a tool whose executable is not found gets no record.          *)
(***************************************************************************)
C1_RunAllAddsLenPlusOne ==
    pc = "run_all_done" => Len(Ledger) = Len(run_base) + Len(tool_list) + 1

(***************************************************************************)
(* C7: every tool invocation of run_all_cli appends exactly one record,    *)
(* writes exactly one log entry for that tool, and the run goes on to the  *)
(* next tool.  Stated here for the tools whose definition is empty or      *)
(* valid (the invalid ones are C8).  Violated: "no-launcher" writes no log *)
(* entry, "not found" writes neither a record nor a log entry.             *)
(***************************************************************************)
C7_OneRecordOneLogPerInvocation ==
    [][ (InLoop /\ ~Invalid(ToolsGet(CONFIG.tools, tool_list[i]))) =>
          /\ pc' = "run_all" /\ i' = i + 1
          /\ Len(Ledger') = Len(Ledger) + 1
          /\ Ledger'[Len(Ledger')].tool = tool_list[i]
          /\ Len(LogOf(disk', tool_list[i])) = Len(LogOf(disk, tool_list[i])) + 1 ]_vars

(***************************************************************************)
(* C8: a tool with an invalid command definition gives a failed record     *)
(* with a note, the run continues, and no exception leaves run_tool_cli or *)
(* run_all_cli.  Violated: the TypeError of os.path.isabs / " ".join       *)
(* escapes.                                                                *)
(***************************************************************************)
C8_InvalidDefinitionIsRecorded ==
    [][ /\ (InLoop /\ Invalid(ToolsGet(CONFIG.tools, tool_list[i]))) =>
              /\ pc' = "run_all" /\ i' = i + 1
              /\ Len(Ledger') = Len(Ledger) + 1
              /\ Ledger'[Len(Ledger')].tool = tool_list[i]
              /\ "note" \in DOMAIN Ledger'[Len(Ledger')]
        /\ (AtMenu /\ pc' \in {"tool_done", "raised"}
                   /\ Invalid(ToolsGet(CONFIG.tools, last_call'[1].tool))) =>
              /\ pc' = "tool_done"
              /\ Len(Ledger') = Len(Ledger) + 1
              /\ "note" \in DOMAIN Ledger'[Len(Ledger')] ]_vars

(***************************************************************************)
(* C9: run_all_cli takes the tools in registration order, one after the    *)
(* other: the list iterated is the registry's key order, the summary and   *)
(* the per-tool records of the run follow that order, only tools already   *)
(* visited have a record, and each log entry of the run carries the time   *)
(* of its own turn.                                                        *)
(***************************************************************************)
C9_RegistrationOrder ==
    pc \in {"run_all", "run_all_done"} =>
        LET per == SelectSeq(RunRecords, LAMBDA r : ~IsAggregate(r))
            Pos(r) == CHOOSE k \in 1..Len(tool_list) : tool_list[k] = r.tool
        IN  /\ Len(tool_list) = Len(CONFIG.tools)
            /\ \A k \in 1..Len(tool_list) : tool_list[k] = CONFIG.tools[k].name
            /\ Len(summary) = i - 1
            /\ \A k \in 1..Len(summary) : summary[k].tool = tool_list[k]
            /\ \A a \in 1..Len(per) : \E k \in 1..(i - 1) : tool_list[k] = per[a].tool
            /\ \A a, b \in 1..Len(per) : a < b => Pos(per[a]) < Pos(per[b])
            /\ \A a, b \in 1..Len(summary) : a < b => summary[a].time < summary[b].time
            /\ \A k \in 1..Len(summary) :
                 LET log == LogOf(disk, summary[k].tool)
                 IN  \A n \in 1..Len(log) :
                        log[n].time >= summary[1].time => log[n].time = summary[k].time

C9_Witness ==
    /\ pc = "run_all_done"
    /\ Len(tool_list) = 2
    /\ Len(SelectSeq(RunRecords, LAMBDA r : ~IsAggregate(r))) = 2
    /\ Len(LogOf(disk, tool_list[2])) > 0

(***************************************************************************)
(* C10: a finished run_all_cli has appended, last, one aggregate record    *)
(* whose summary has one entry per tool, in order, each carrying the tool  *)
(* name, the success flag and the exit code.  Violated: the entries carry  *)
(* tool, success and time; the exit code is dropped by                     *)
(* run_command_capture.                                                    *)
(***************************************************************************)
C10_AggregateCarriesOutcomes ==
    pc = "run_all_done" =>
        /\ Len(Ledger) > 0
        /\ LET r == Ledger[Len(Ledger)]
           IN  /\ IsAggregate(r)
               /\ Len(r.summary) = Len(tool_list)
               /\ \A k \in 1..Len(r.summary) :
                    /\ r.summary[k].tool = tool_list[k]
                    /\ {"tool", "success", "exit_code"} \subseteq DOMAIN r.summary[k]
        /\ \A k \in 1..(Len(Ledger) - 1) :
             k > Len(run_base) => ~IsAggregate(Ledger[k])

Corrupt(d) == RESULTS_JSON \in DOMAIN d /\ ~WellFormed(d)

MiniRecord(t) ==
    [tool |-> mini_port_scanner_name, target |-> "192.168.1.1", time |-> t,
     output_preview |-> "res_lines"]

ScriptRecord(t) == [tool |-> BurpSuite, time |-> t, success |-> TRUE]

C4_CorruptLedgerIsBackedUp ==
    [][ (Corrupt(disk) /\ FileOf(disk') # FileOf(disk)) =>
          /\ Len(Ledger') = 1
          /\ \E path \in DOMAIN disk' \ {RESULTS_JSON} :
                disk'[path] = disk[RESULTS_JSON] ]_vars

(***************************************************************************)
(* C5: after an append the ledger file is a well-formed JSON array,        *)
(* whatever it held before; a missing, non-array or unparseable file       *)
(* counts as empty, so the append leaves the array [r].                    *)
(***************************************************************************)
C5_WellFormedAfterAppend ==
    [][ FileOf(disk') # FileOf(disk) =>
          /\ WellFormed(disk')
          /\ Len(Ledger') = Len(Ledger) + 1
          /\ ~WellFormed(disk) => Len(Ledger') = 1 ]_vars

C5_Witness ==
    /\ Corrupt(disk0)
    /\ pc \in {"mini_done", "tool_done", "script_done"}
    /\ ops = MaxOps - 1
    /\ WellFormed(disk)
    /\ Len(Ledger) = 1

(***************************************************************************)
(* C2: appends from several threads serialise, so no update is lost: once  *)
(* every thread has finished, the ledger holds every record appended.      *)
(* Violated: append_result takes no lock; two threads read the same list   *)
(* and the second write drops the first thread's record.                   *)
(***************************************************************************)
C2_NoLostUpdate ==
    (\A w \in 1..NumWorkers : workers[w].pc \in {"idle", "done", "raised"}) =>
        \A w \in 1..NumWorkers : \A k \in 1..Len(workers[w].sent) :
            \E n \in 1..Len(Ledger) : Ledger[n] = workers[w].sent[k]

(***************************************************************************)
(* C6: the ledger is replaced atomically: if an append is interrupted      *)
(* during its write, the file holds the complete old content or the        *)
(* complete new sequence.  Violated: the file is opened with "w" and       *)
(* written in place, so a kill leaves it empty or cut short.               *)
(***************************************************************************)
C6_InterruptedWriteIsAtomic ==
    wr.pc = "killed" =>
        \/ FileOf(disk) = wr.old
        \/ FileOf(disk) = <<JsonDump(Append(wr.results, wr.rec))>>

(***************************************************************************)
(* Functions called on their own, MaxCalls times, on inputs of every kind  *)
(***************************************************************************)
fn_vars == <<CONFIG, PATH, exec_files, disk, now, ops, tool_list, i, summary,
             disk0, run_base, last_call, workers, wr, heap>>

\* a registry with a launchable tool and a tool without launcher
RegistryWith(empty_cmd) ==
    [tools |-> << [name |-> Nmap, cmd |-> PyList(<<S("nmap")>>)],
                  [name |-> QualysGuard, cmd |-> empty_cmd] >>,
     paths |-> (nmap_path :> S(""))]

InitFnLocals ==
    /\ now = 1
    /\ ops = 0
    /\ disk0 = disk
    /\ tool_list = <<>>
    /\ i = 0
    /\ summary = <<>>
    /\ run_base = <<>>
    /\ last_call = <<>>
    /\ workers = [w \in 1..NumWorkers |-> IdleWorker]
    /\ wr = NoWrite
    /\ calls = <<>>
    /\ heap = <<>>

\* run_command_capture(cmd_list), the returned pair kept as result
CallRunCommandCapture ==
    /\ pc = "run_command_capture" /\ Len(calls) < MaxCalls
    /\ \E cmd_list \in {<<"nmap">>, <<"sparta", "-h">>}, x \in Executions :
         LET r == run_command_capture_of(cmd_list, x)
         IN  calls' = Append(calls, [fn |-> "run_command_capture",
                                     input |-> [cmd_list |-> cmd_list, x |-> x],
                                     result |-> <<r.ok, r.out>>, spawned |-> r.spawned])
    /\ UNCHANGED <<fn_vars, pc>>

InitExec ==
    /\ CONFIG = RegistryWith(PyList(<<>>))
    /\ pc = "run_command_capture"
    /\ PATH = {"nmap", "sparta"}
    /\ exec_files = {"/opt/nmap/nmap"}
    /\ disk = (RESULTS_JSON :> JsonDump(<<>>))
    /\ InitFnLocals

NextExec == CallRunCommandCapture

SpecExec == InitExec /\ [][NextExec]_vars

\* the arguments is_executable_available is tried on
AvailInputs ==
    { PyNone, PyList(<<>>), PyList(<<S("")>>), PyStr(""),
      PyNum("0"), PyNum("5"), PyDict("{}"), PyDict("{'a': 1}"),
      PyList(<<NonStr("5")>>), PyList(<<NonStr("['nmap']"), S("-sV")>>),
      PyList(<<S("nmap")>>), PyList(<<S("nmap"), S("-sV")>>), PyStr("sparta"), PyStr("burpsuite"),
      PyList(<<S("/opt/nmap/nmap"), S("-sV")>>), PyStr("/opt/nmap/nmap"),
      PyList(<<S("/opt/missing/nmap")>>) }

\* is_executable_available(cmd), called on its own
CallIsExecutableAvailable ==
    /\ pc = "is_executable_available" /\ Len(calls) < MaxCalls
    /\ \E cmd \in AvailInputs :
         calls' = Append(calls, [fn |-> "is_executable_available", input |-> cmd,
                                 result |-> is_executable_available(cmd)])
    /\ UNCHANGED <<fn_vars, pc>>

\* the search path and the file system are in any condition
InitAvail ==
    /\ CONFIG = RegistryWith(PyList(<<>>))
    /\ pc = "is_executable_available"
    /\ PATH \in {{"nmap", "sparta"}, {"sparta"}}
    /\ exec_files \in {{"/opt/nmap/nmap"}, {}}
    /\ disk = (RESULTS_JSON :> JsonDump(<<>>))
    /\ InitFnLocals

NextAvail == CallIsExecutableAvailable

SpecAvail == InitAvail /\ [][NextAvail]_vars

(***************************************************************************)
(* config.json and load_config.  A JSON value is [ty, v]: a string (its    *)
(* characters), a number, a list of values, or a dict kept as the sequence *)
(* of its [key, val] pairs in insertion order.  The file holds the tokens  *)
(* of the JSON text: "{" "}" "[" "]", strings and numbers; inside an       *)
(* object a string token is a key and the value follows it.                *)
(***************************************************************************)
CStr(v) == [ty |-> "str", s |-> v]
CNum(v) == [ty |-> "num", n |-> v]
CList(items) == [ty |-> "list", items |-> items]
CDict(pairs) == [ty |-> "dict", pairs |-> pairs]

LC == [t |-> "{"]
RC == [t |-> "}"]
StrTok(v) == [t |-> "str", s |-> v]
NumTok(v) == [t |-> "num", n |-> v]

CONFIG_PATH == [dir |-> ".", name |-> <<"c","o","n","f","i","g",".","j","s","o","n">>]

project_name == <<"p","r","o","j","e","c","t","_","n","a","m","e">>
timeout_seconds == <<"t","i","m","e","o","u","t","_","s","e","c","o","n","d","s">>
tools_key == <<"t","o","o","l","s">>
paths_key == <<"p","a","t","h","s">>
run_as_admin_required ==
    <<"r","u","n","_","a","s","_","a","d","m","i","n","_","r","e","q","u","i","r","e","d">>

\* DEFAULT_CONFIG, with two of its tools and one of its paths
DEFAULT_CONFIG ==
    CDict(<< [key |-> project_name, val |-> CStr(<<"C","M","T","L">>)],
             [key |-> timeout_seconds, val |-> CNum(300)],
             [key |-> tools_key,
              val |-> CDict(<< [key |-> Nmap, val |-> CList(<<CStr(<<"n","m","a","p">>)>>)],
                               [key |-> QualysGuard, val |-> CList(<<>>)] >>)],
             [key |-> paths_key, val |-> CDict(<< [key |-> nmap_path, val |-> CStr(<<>>)] >>)],
             [key |-> run_as_admin_required, val |-> CList(<<CStr(<<"s","c","a","p","y">>)>>)] >>)

\* d[key] = val on the pairs of a dict: replaced in place, or added at the end
SetPair(pairs, key, val) ==
    IF \E k \in 1..Len(pairs) : pairs[k].key = key
    THEN [k \in 1..Len(pairs) |-> IF pairs[k].key = key THEN [key |-> key, val |-> val]
                                  ELSE pairs[k]]
    ELSE Append(pairs, [key |-> key, val |-> val])

\* json.dump(value, f, indent=2)
RECURSIVE JsonDumpValue(_)
RECURSIVE JsonDumpItems(_)
RECURSIVE JsonDumpPairs(_)
JsonDumpItems(items) ==
    IF items = <<>> THEN <<>> ELSE JsonDumpValue(Head(items)) \o JsonDumpItems(Tail(items))

JsonDumpPairs(pairs) ==
    IF pairs = <<>> THEN <<>>
    ELSE <<StrTok(Head(pairs).key)>> \o JsonDumpValue(Head(pairs).val) \o JsonDumpPairs(Tail(pairs))

JsonDumpValue(value) ==
    CASE value.ty = "str" -> <<StrTok(value.s)>>
      [] value.ty = "num" -> <<NumTok(value.n)>>
      [] value.ty = "list" -> <<LB>> \o JsonDumpItems(value.items) \o <<RB>>
      [] value.ty = "dict" -> <<LC>> \o JsonDumpPairs(value.pairs) \o <<RC>>

\* json.load(f): the parse of one value, [ok, value, rest]
ParseFail == [ok |-> FALSE, value |-> CNum(0), rest |-> <<>>]

RECURSIVE ParseValue(_)
RECURSIVE ParseItems(_, _)
RECURSIVE ParsePairs(_, _)
ParseItems(toks, acc) ==
    IF toks = <<>> THEN ParseFail
    ELSE IF Head(toks) = RB THEN [ok |-> TRUE, value |-> CList(acc), rest |-> Tail(toks)]
    ELSE LET p == ParseValue(toks)
         IN  IF ~p.ok THEN ParseFail ELSE ParseItems(p.rest, Append(acc, p.value))

ParsePairs(toks, acc) ==
    IF toks = <<>> THEN ParseFail
    ELSE IF Head(toks) = RC THEN [ok |-> TRUE, value |-> CDict(acc), rest |-> Tail(toks)]
    ELSE IF Head(toks).t # "str" THEN ParseFail
    ELSE LET p == ParseValue(Tail(toks))
         IN  IF ~p.ok THEN ParseFail
             ELSE ParsePairs(p.rest, SetPair(acc, Head(toks).s, p.value))

ParseValue(toks) ==
    IF toks = <<>> THEN ParseFail
    ELSE CASE Head(toks).t = "str" -> [ok |-> TRUE, value |-> CStr(Head(toks).s), rest |-> Tail(toks)]
           [] Head(toks).t = "num" -> [ok |-> TRUE, value |-> CNum(Head(toks).n), rest |-> Tail(toks)]
           [] Head(toks).t = "[" -> ParseItems(Tail(toks), <<>>)
           [] Head(toks).t = "{" -> ParsePairs(Tail(toks), <<>>)
           [] OTHER -> ParseFail

\* json.load(f): [raised, value]
JsonLoadValue(data) ==
    LET p == ParseValue(data)
    IN  IF p.ok /\ p.rest = <<>> THEN [raised |-> FALSE, value |-> p.value]
        ELSE [raised |-> TRUE, value |-> CNum(0)]

\* needle in haystack, for two strings
IsSubstr(needle, hay) ==
    \E j \in 0..(Len(hay) - Len(needle)) : SubSeq(hay, j + 1, j + Len(needle)) = needle

\* `k in value`: [raised, value]
PyIn(k, value) ==
    CASE value.ty = "dict" ->
           [raised |-> FALSE, value |-> \E n \in 1..Len(value.pairs) : value.pairs[n].key = k]
      [] value.ty = "list" ->
           [raised |-> FALSE, value |-> \E n \in 1..Len(value.items) : value.items[n] = CStr(k)]
      [] value.ty = "str" -> [raised |-> FALSE, value |-> IsSubstr(k, value.s)]
      [] OTHER -> [raised |-> TRUE, value |-> FALSE]      \* TypeError: not iterable

\* `value[k]` for a string k: [raised, value]
PyGetItem(value, k) ==
    IF value.ty = "dict" /\ \E n \in 1..Len(value.pairs) : value.pairs[n].key = k
    THEN [raised |-> FALSE,
          value |-> value.pairs[CHOOSE n \in 1..Len(value.pairs) : value.pairs[n].key = k].val]
    ELSE [raised |-> TRUE, value |-> value]               \* TypeError, KeyError

\* `value[k] = v` for a string k: [raised, value]
PySetItem(value, k, v) ==
    IF value.ty = "dict" THEN [raised |-> FALSE, value |-> CDict(SetPair(value.pairs, k, v))]
    ELSE [raised |-> TRUE, value |-> value]               \* TypeError

\* lines 102-104: the sub-keys of a dict default that cfg[k] lacks are added to it
RECURSIVE MergeSub(_, _)
MergeSub(sub, defaults) ==
    IF defaults = <<>> THEN [raised |-> FALSE, value |-> sub]
    ELSE LET subk == Head(defaults).key
             subv == Head(defaults).val
             has == PyIn(subk, sub)
         IN  IF has.raised THEN [raised |-> TRUE, value |-> sub]
             ELSE IF has.value THEN MergeSub(sub, Tail(defaults))
             ELSE LET set == PySetItem(sub, subk, subv)
                  IN  IF set.raised THEN set ELSE MergeSub(set.value, Tail(defaults))

\* lines 97-104: the keys of DEFAULT_CONFIG that cfg lacks are added to it
RECURSIVE MergeDefaults(_, _)
MergeDefaults(cfg, defaults) ==
    IF defaults = <<>> THEN [raised |-> FALSE, value |-> cfg]
    ELSE LET k == Head(defaults).key
             v == Head(defaults).val
             has == PyIn(k, cfg)
         IN  IF has.raised THEN [raised |-> TRUE, value |-> cfg]
             ELSE IF ~has.value
             THEN LET set == PySetItem(cfg, k, v)
                  IN  IF set.raised THEN set ELSE MergeDefaults(set.value, Tail(defaults))
             ELSE IF v.ty # "dict" THEN MergeDefaults(cfg, Tail(defaults))
             ELSE LET got == PyGetItem(cfg, k)
                  IN  IF got.raised THEN [raised |-> TRUE, value |-> cfg]
                      ELSE LET sub == MergeSub(got.value, v.pairs)
                           IN  IF sub.raised THEN [raised |-> TRUE, value |-> cfg]
                               ELSE MergeDefaults(PySetItem(cfg, k, sub.value).value,
                                                  Tail(defaults))

\* faulty variant: the defaults are put over what the file holds
load_config_defaults_win(d) ==
    IF Exists(d, CONFIG_PATH)
    THEN LET p == JsonLoadValue(d[CONFIG_PATH])
             m == MergeDefaults(DEFAULT_CONFIG, IF p.value.ty = "dict" THEN p.value.pairs ELSE <<>>)
         IN  IF p.raised \/ p.value.ty # "dict" \/ m.raised
             THEN [raised |-> FALSE, cfg |-> DEFAULT_CONFIG, disk |-> d]
             ELSE [raised |-> FALSE, cfg |-> m.value, disk |-> d]
    ELSE [raised |-> FALSE, cfg |-> DEFAULT_CONFIG,
          disk |-> WriteFile(d, CONFIG_PATH, JsonDumpValue(DEFAULT_CONFIG))]

\* faulty variant: the call that creates the file returns an empty registry
load_config_returns_empty(d) ==
    IF Exists(d, CONFIG_PATH)
    THEN LET p == JsonLoadValue(d[CONFIG_PATH])
             m == MergeDefaults(p.value, DEFAULT_CONFIG.pairs)
         IN  IF p.raised \/ m.raised
             THEN [raised |-> FALSE, cfg |-> DEFAULT_CONFIG, disk |-> d]
             ELSE [raised |-> FALSE, cfg |-> m.value, disk |-> d]
    ELSE [raised |-> FALSE, cfg |-> CDict(<<>>),
          disk |-> WriteFile(d, CONFIG_PATH, JsonDumpValue(DEFAULT_CONFIG))]

\* load_config(): [raised, cfg, disk]
load_config(d) ==
    IF Exists(d, CONFIG_PATH)
    THEN LET p == JsonLoadValue(d[CONFIG_PATH])
             m == MergeDefaults(p.value, DEFAULT_CONFIG.pairs)
         IN  IF p.raised \/ m.raised
             THEN [raised |-> FALSE, cfg |-> DEFAULT_CONFIG, disk |-> d]    \* except Exception
             ELSE [raised |-> FALSE, cfg |-> m.value, disk |-> d]
    ELSE [raised |-> FALSE, cfg |-> DEFAULT_CONFIG,
          disk |-> WriteFile(d, CONFIG_PATH, JsonDumpValue(DEFAULT_CONFIG))]

\* a config the user wrote: other values, one more tool, one more top-level key
UserConfig ==
    CDict(<< [key |-> tools_key,
              val |-> CDict(<< [key |-> Kismet, val |-> CList(<<CStr(<<"k","i","s","m","e","t">>)>>)],
                               [key |-> QualysGuard, val |-> CList(<<CStr(<<"q","g">>)>>)],
                               [key |-> Nmap, val |-> CList(<<CStr(<<"n","m","a","p">>),
                                                              CStr(<<"-","s","V">>)>>)] >>)],
             [key |-> project_name, val |-> CStr(<<"L","a","b">>)],
             [key |-> <<"t","h","e","m","e">>, val |-> CStr(<<"d","a","r","k">>)],
             [key |-> timeout_seconds, val |-> CNum(60)],
             [key |-> paths_key, val |-> CDict(<< [key |-> nmap_path, val |-> CStr(<<"/","n">>)] >>)],
             [key |-> run_as_admin_required, val |-> CList(<<>>)] >>)

\* a dict without one of its keys
RemoveKey(dict, key) == CDict(SelectSeq(dict.pairs, LAMBDA pr : pr.key # key))

\* a dict with the value under one of its keys replaced
ReplaceKey(dict, key, val) == CDict(SetPair(dict.pairs, key, val))

\* a config without one sub-key of the dict under key
RemoveSubKey(dict, key, subk) == ReplaceKey(dict, key, RemoveKey(PyGetItem(dict, key).value, subk))

TopKeys == {DEFAULT_CONFIG.pairs[k].key : k \in 1..Len(DEFAULT_CONFIG.pairs)}

SubKeys == {<<tools_key, Nmap>>, <<tools_key, QualysGuard>>, <<paths_key, nmap_path>>}

ValidConfigs == {DEFAULT_CONFIG, UserConfig, RemoveKey(UserConfig, <<"t","h","e","m","e">>)}

\* a valid config with one key removed
OneKeyRemoved ==
    {RemoveKey(c, k) : c \in ValidConfigs, k \in TopKeys}
    \cup {RemoveSubKey(c, sk[1], sk[2]) : c \in ValidConfigs, sk \in SubKeys}

\* JSON values that are no object
NonObjects ==
    { CNum(5), CStr(<<"x">>), CList(<<CStr(<<"x">>)>>),
      CList(<<CStr(project_name), CStr(timeout_seconds), CStr(tools_key), CStr(paths_key),
              CStr(run_as_admin_required)>>) }

\* values that are no mapping, for a key whose default is one
NonMappings ==
    { CNum(5), CStr(<<"x">>), CList(<<CStr(Nmap)>>),
      CList(<<CStr(Nmap), CStr(QualysGuard), CStr(nmap_path)>>) }

NonMappingConfigs ==
    {ReplaceKey(c, k, v) : c \in {DEFAULT_CONFIG, UserConfig}, k \in {tools_key, paths_key},
                           v \in NonMappings}

\* text that json.load rejects
Unparseable == { <<Junk>>, <<LC, StrTok(tools_key)>>, <<>>,
                 JsonDumpValue(DEFAULT_CONFIG) \o <<RC>> }

ConfigFiles ==
    {JsonDumpValue(c) : c \in ValidConfigs \cup OneKeyRemoved \cup NonObjects \cup NonMappingConfigs}
    \cup Unparseable

\* the config file as a reader finds it: <<content>>, or <<>> when missing
ConfigFileOf(d) == IF CONFIG_PATH \in DOMAIN d THEN <<d[CONFIG_PATH]>> ELSE <<>>

\* load_config(), called with the file as it is
CallLoadConfig ==
    /\ pc = "load_config" /\ Len(calls) < MaxCalls
    /\ LET r == load_config(disk)
       IN  /\ calls' = Append(calls, [fn |-> "load_config", input |-> ConfigFileOf(disk),
                                      result |-> [raised |-> r.raised, cfg |-> r.cfg]])
           /\ disk' = r.disk
    /\ UNCHANGED <<CONFIG, PATH, exec_files, now, ops, tool_list, i, summary,
                   disk0, run_base, last_call, workers, wr, pc, heap>>

\* config.json is missing, or holds any of the texts above
InitConfig ==
    /\ CONFIG = RegistryWith(PyList(<<>>))
    /\ pc = "load_config"
    /\ PATH = {"nmap", "sparta"}
    /\ exec_files = {"/opt/nmap/nmap"}
    /\ disk \in {(RESULTS_JSON :> JsonDump(<<>>))}
                \cup {(CONFIG_PATH :> f) @@ (RESULTS_JSON :> JsonDump(<<>>)) : f \in ConfigFiles}
    /\ InitFnLocals

NextConfig == CallLoadConfig

SpecConfig == InitConfig /\ [][NextConfig]_vars

\* tool names the log writers are tried on
burp_suite == <<"b","u","r","p"," ","s","u","i","t","e">>
Burp_Suite == <<"B","u","r","p","_","S","u","i","t","e">>
TCP_IP == <<"T","C","P","/","I","P">>

\* None stands for the names that are no string
LogNames ==
    {S(Nmap), S(BurpSuite), S(burp_suite), S(Burp_Suite), S(TCP_IP), NonStr(<<"N","o","n","e">>)}
LogTexts == {S("text"), NonStr("None")}

\* write_log(tool_name, text), called on its own
CallWriteLog ==
    /\ pc = "write_log" /\ Len(calls) < MaxCalls
    /\ \E tool_name \in LogNames, text \in LogTexts, io \in {"ok", "OSError"} :
         LET r == write_log_of(disk, tool_name, text, now, io)
         IN  /\ calls' = Append(calls, [fn |-> "write_log",
                                        input |-> [tool_name |-> tool_name, text |-> text, io |-> io],
                                        result |-> [raised |-> r.raised, path |-> r.path]])
             /\ disk' = r.disk
    /\ now' = now + 1
    /\ UNCHANGED <<CONFIG, PATH, exec_files, ops, tool_list, i, summary,
                   disk0, run_base, last_call, workers, wr, pc, heap>>

\* write_tool_log(tool_name, text), called on its own
CallWriteToolLog ==
    /\ pc = "write_log" /\ Len(calls) < MaxCalls
    /\ \E tool_name \in LogNames, text \in LogTexts, io \in {"ok", "OSError"} :
         LET r == write_tool_log_of(disk, tool_name, text, now, io)
         IN  /\ calls' = Append(calls, [fn |-> "write_tool_log",
                                        input |-> [tool_name |-> tool_name, text |-> text, io |-> io],
                                        result |-> [raised |-> r.raised, path |-> r.path]])
             /\ disk' = r.disk
    /\ now' = now + 1
    /\ UNCHANGED <<CONFIG, PATH, exec_files, ops, tool_list, i, summary,
                   disk0, run_base, last_call, workers, wr, pc, heap>>

InitLog ==
    /\ CONFIG = RegistryWith(PyList(<<>>))
    /\ pc = "write_log"
    /\ PATH = {"nmap", "sparta"}
    /\ exec_files = {"/opt/nmap/nmap"}
    /\ disk = (RESULTS_JSON :> JsonDump(<<>>))
    /\ InitFnLocals

NextLog == CallWriteLog \/ CallWriteToolLog

SpecLog == InitLog /\ [][NextLog]_vars

\* run_tool_cli(tool_name, extra_args), called on its own; before is the disk it found
CallRunToolCli ==
    /\ pc = "run_tool_cli" /\ Len(calls) < MaxCalls
    /\ \E tool_name \in {Nmap, QualysGuard, Kismet}, extra_args \in {<<>>, <<S("-sV")>>},
          outcome \in Outcomes :
         LET e == run_tool_cli(tool_name, extra_args, outcome, now)
         IN  /\ calls' = Append(calls, [fn |-> "run_tool_cli",
                                        input |-> [tool_name |-> tool_name,
                                                   extra_args |-> extra_args, x |-> outcome],
                                        result |-> e, before |-> disk])
             /\ disk' = ApplyRecs(ApplyLogs(disk, e.logs, now), e.recs)
    /\ now' = now + 1
    /\ UNCHANGED <<CONFIG, PATH, exec_files, ops, tool_list, i, summary,
                   disk0, run_base, last_call, workers, wr, pc, heap>>

\* the launcher of QualysGuard is [], "" or None; Kismet is not in the registry
InitTool ==
    /\ CONFIG \in {RegistryWith(c) : c \in {PyList(<<>>), PyStr(""), PyNone}}
    /\ pc = "run_tool_cli"
    /\ PATH = {"nmap", "sparta"}
    /\ exec_files = {"/opt/nmap/nmap"}
    /\ disk = (RESULTS_JSON :> JsonDump(<<>>))
    /\ InitFnLocals

NextTool == CallRunToolCli

SpecTool == InitTool /\ [][NextTool]_vars

(***************************************************************************)
(* The per-invocation state machine, read off what run_tool_cli returns    *)
(***************************************************************************)
\* the terminal states an invocation's returned pair (ok, out) stands for
TerminalStates(e) ==
    IF e.raised THEN {}
    ELSE IF e.ok THEN {"SUCCEEDED"}
    ELSE IF e.out = "Command timed out." THEN {"TIMED_OUT"}
    ELSE IF e.out \in {"Executable not found", "Command not found"} THEN {"NOT_FOUND"}
    ELSE {"FAILED"}

\* the locator run_tool_cli would look up for the tool
LocatorOf(tool_name) ==
    final_cmd_of(tool_name, ToolsGet(CONFIG.tools, tool_name), <<>>).toks[1]

LocatorFound(tool_name) ==
    LET exe == LocatorOf(tool_name)
    IN  /\ exe.str
        /\ IF IsAbs(exe.v) THEN exe.v \in exec_files ELSE exe.v \in PATH

(***************************************************************************)
(* C11: every invocation of a tool that has a command definition follows   *)
(* PENDING -> (NOT_FOUND | RUNNING -> (SUCCEEDED | FAILED | TIMED_OUT)):   *)
(* it ends in exactly one terminal state, SUCCEEDED / FAILED / TIMED_OUT   *)
(* only after a process was spawned, an unavailable tool is never spawned, *)
(* and a run invokes no tool twice.  Violated: an invocation of a tool     *)
(* with an invalid definition (C8) is left by a TypeError and ends in no   *)
(* terminal state.                                                         *)
(***************************************************************************)
C11_InvocationStateMachine ==
    /\ (last_call # <<>> /\ Truthy(ToolsGet(CONFIG.tools, last_call[1].tool))) =>
          LET e == last_call[1].effect
              t == last_call[1].tool
          IN  /\ Cardinality(TerminalStates(e)) = 1
              /\ (TerminalStates(e) \subseteq {"SUCCEEDED", "FAILED", "TIMED_OUT"}) => e.spawned
              /\ e.spawned => (e.checked /\ LocatorFound(t))
              /\ ~LocatorFound(t) => (~e.spawned /\ TerminalStates(e) = {"NOT_FOUND"})
    /\ pc \in {"run_all", "run_all_done"} =>
          \A a, b \in 1..Len(summary) : a # b => summary[a].tool # summary[b].tool

\* C11 without the invalid definitions of C8
C11_ValidOnly ==
    /\ (last_call # <<>> /\ Truthy(ToolsGet(CONFIG.tools, last_call[1].tool))
                         /\ ~Invalid(ToolsGet(CONFIG.tools, last_call[1].tool))) =>
          LET e == last_call[1].effect
              t == last_call[1].tool
          IN  /\ Cardinality(TerminalStates(e)) = 1
              /\ (TerminalStates(e) \subseteq {"SUCCEEDED", "FAILED", "TIMED_OUT"}) => e.spawned
              /\ e.spawned => (e.checked /\ LocatorFound(t))
              /\ ~LocatorFound(t) => (~e.spawned /\ TerminalStates(e) = {"NOT_FOUND"})
    /\ pc \in {"run_all", "run_all_done"} =>
          \A a, b \in 1..Len(summary) : a # b => summary[a].tool # summary[b].tool

\* the outcome classes of the executor contract
OutcomeClass(x) ==
    CASE x.kind = "exit" -> "COMPLETED"
      [] x.kind = "TimeoutExpired" -> "TIMED_OUT"
      [] OTHER -> "NOT_FOUND"

(***************************************************************************)
(* C12: run_command_capture puts every execution into one outcome the      *)
(* caller can tell apart from what is returned: executions of different    *)
(* classes (TIMED_OUT, NOT_FOUND, completed) return different values,      *)
(* success is returned exactly for a completion with exit code 0, and the  *)
(* exit code is returned, so completions with different exit codes return  *)
(* different values.  Violated: only (ok, out) is returned; exit codes 1   *)
(* and 2 with the same output return the same pair.                        *)
(***************************************************************************)
C12_OutcomeReturned ==
    \A a, b \in 1..Len(calls) :
        (calls[a].fn = "run_command_capture" /\ calls[b].fn = "run_command_capture") =>
            LET xa == calls[a].input.x
                xb == calls[b].input.x
            IN  /\ calls[a].result[1] <=> (xa.kind = "exit" /\ xa.code = 0)
                /\ OutcomeClass(xa) # OutcomeClass(xb) => calls[a].result # calls[b].result
                /\ (xa.kind = "exit" /\ xb.kind = "exit" /\ xa.code # xb.code) =>
                       calls[a].result # calls[b].result

\* C12 without the exit code: the class and the success flag can be told apart
C12_ClassReturned ==
    \A a, b \in 1..Len(calls) :
        (calls[a].fn = "run_command_capture" /\ calls[b].fn = "run_command_capture") =>
            LET xa == calls[a].input.x
                xb == calls[b].input.x
            IN  /\ calls[a].result[1] <=> (xa.kind = "exit" /\ xa.code = 0)
                /\ OutcomeClass(xa) # OutcomeClass(xb) => calls[a].result # calls[b].result

\* an argument that is no command spec: empty, or of the wrong type
Malformed(cmd) ==
    \/ cmd.kind \in {"none", "num", "dict"}
    \/ cmd.kind = "list" /\ (cmd.toks = <<>> \/ ~cmd.toks[1].str \/ cmd.toks[1].v = "")
    \/ cmd.kind = "str" /\ cmd.toks[1].v = ""

(***************************************************************************)
(* C13: is_executable_available never raises on a malformed argument and   *)
(* returns false for it: None, an empty list, a list whose first token is  *)
(* empty, a number, a mapping, a list whose first token is not a string;   *)
(* and it changes nothing.  Violated: for a non-zero number, a non-empty   *)
(* mapping and a list whose first token is not a string, os.path.isabs     *)
(* raises TypeError.                                                       *)
(***************************************************************************)
C13_MalformedGivesFalse ==
    /\ \A k \in 1..Len(calls) :
         (calls[k].fn = "is_executable_available" /\ Malformed(calls[k].input)) =>
             calls[k].result = [raised |-> FALSE, value |-> FALSE]
    /\ pc = "is_executable_available" => disk = disk0

\* C13 for the arguments that are empty: these do give false
C13_EmptyGivesFalse ==
    \A k \in 1..Len(calls) :
        (calls[k].fn = "is_executable_available" /\ ~Truthy(calls[k].input)) =>
            calls[k].result = [raised |-> FALSE, value |-> FALSE]

(***************************************************************************)
(* C14: for a well-formed spec (a non-empty string, or a list whose first  *)
(* token is a non-empty string) is_executable_available takes the first    *)
(* token, or the string itself, as the locator and returns true exactly    *)
(* when the locator is absolute and is an existing executable file, or is  *)
(* not absolute and resolves on the search path.                           *)
(***************************************************************************)
C14_AvailableIffLocatorResolves ==
    \A k \in 1..Len(calls) :
        (calls[k].fn = "is_executable_available" /\ ~Malformed(calls[k].input)) =>
            LET locator == calls[k].input.toks[1].v
            IN  /\ ~calls[k].result.raised
                /\ calls[k].result.value <=>
                      \/ IsAbs(locator) /\ locator \in exec_files
                      \/ ~IsAbs(locator) /\ locator \in PATH

\* an absolute locator found, a string spec found on the path, a name not on the path
C14_Witness ==
    /\ Len(calls) = 2
    /\ calls[1].input = PyList(<<S("/opt/nmap/nmap"), S("-sV")>>)
    /\ calls[1].result.value
    /\ calls[2].input = PyStr("burpsuite")
    /\ ~calls[2].result.value
    /\ "nmap" \in PATH

(***************************************************************************)
(* C15: two calls of load_config with no edit of the file in between       *)
(* return equal registries, key by key and in the same order, whatever the *)
(* file was at the first call: missing, a valid object, an object lacking  *)
(* keys, unparseable, or JSON that is no object.                           *)
(***************************************************************************)
C15_LoadConfigIdempotent ==
    \A a, b \in 1..Len(calls) :
        (calls[a].fn = "load_config" /\ calls[b].fn = "load_config") =>
            calls[a].result = calls[b].result

\* the file was missing at the first call and was read back at the second
C15_Witness ==
    /\ Len(calls) = 2
    /\ calls[1].fn = "load_config"
    /\ calls[1].input = <<>>
    /\ calls[2].input = <<JsonDumpValue(DEFAULT_CONFIG)>>
    /\ calls[2].result.cfg = DEFAULT_CONFIG

\* reading a dict
KeysOf(dict) == {dict.pairs[n].key : n \in 1..Len(dict.pairs)}
ValOf(dict, key) == dict.pairs[CHOOSE n \in 1..Len(dict.pairs) : dict.pairs[n].key = key].val

\* the keys whose default is a mapping
DictKeys == {k \in KeysOf(DEFAULT_CONFIG) : ValOf(DEFAULT_CONFIG, k).ty = "dict"}

\* what a config file holds: <<value>>, or <<>> when it does not parse
ParsedFile(input) ==
    IF input = <<>> \/ JsonLoadValue(input[1]).raised THEN <<>>
    ELSE <<JsonLoadValue(input[1]).value>>

\* an object whose values under the mapping keys are mappings
Mergeable(f) ==
    /\ f.ty = "dict"
    /\ \A k \in DictKeys \cap KeysOf(f) : ValOf(f, k).ty = "dict"

\* the keys, top-level or nested, that the file lacks
MissingKeys(f) ==
    {<<k>> : k \in KeysOf(DEFAULT_CONFIG) \ KeysOf(f)}
    \cup UNION {{<<k, subk>> : subk \in KeysOf(ValOf(DEFAULT_CONFIG, k)) \ KeysOf(ValOf(f, k))} :
                   k \in DictKeys \cap KeysOf(f)}

Usable(cfg) ==
    /\ cfg.ty = "dict"
    /\ KeysOf(DEFAULT_CONFIG) \subseteq KeysOf(cfg)
    /\ \A k \in DictKeys : ValOf(cfg, k).ty = "dict"

(***************************************************************************)
(* C17: load_config never raises and always returns a usable registry;     *)
(* when the file does not parse, or parses to a non-object or to an object *)
(* holding a non-mapping under tools / paths, it returns the defaults and  *)
(* leaves the file as it was.  Violated: a list (or string) under tools or *)
(* paths that contains every default sub-key passes the merge and is       *)
(* returned as it is.                                                      *)
(***************************************************************************)
C17_FallsBackToDefaults ==
    \A c \in 1..Len(calls) :
        calls[c].fn = "load_config" =>
            LET after == IF c < Len(calls) THEN calls[c + 1].input ELSE ConfigFileOf(disk)
                parsed == ParsedFile(calls[c].input)
            IN  /\ ~calls[c].result.raised
                /\ Usable(calls[c].result.cfg)
                /\ (calls[c].input # <<>> /\ (parsed = <<>> \/ ~Mergeable(parsed[1]))) =>
                      /\ calls[c].result.cfg = DEFAULT_CONFIG
                      /\ after = calls[c].input

\* C17 without the non-mappings that hold every default sub-key
C17_FallsBackUnlessAllKeysListed ==
    \A c \in 1..Len(calls) :
        calls[c].fn = "load_config" =>
            LET after == IF c < Len(calls) THEN calls[c + 1].input ELSE ConfigFileOf(disk)
                parsed == ParsedFile(calls[c].input)
            IN  /\ ~calls[c].result.raised
                /\ (calls[c].input # <<>>
                      /\ (parsed = <<>> \/ ~Mergeable(parsed[1]))
                      /\ ((parsed # <<>> /\ parsed[1].ty = "dict") =>
                            \A k \in DictKeys \cap KeysOf(parsed[1]) :
                               \E subk \in KeysOf(ValOf(DEFAULT_CONFIG, k)) :
                                  ~PyIn(subk, ValOf(parsed[1], k)).value)) =>
                      /\ calls[c].result.cfg = DEFAULT_CONFIG
                      /\ after = calls[c].input

(***************************************************************************)
(* C18: neither log writer raises: for every tool name and text, a failure *)
(* while deriving the file name, opening or writing the log file is        *)
(* swallowed, in write_log and in write_tool_log.  Violated:               *)
(* write_tool_log has no try at all, and write_log derives the name before *)
(* its try.                                                                *)
(***************************************************************************)
C18_LogWritersNeverRaise ==
    \A k \in 1..Len(calls) :
        calls[k].fn \in {"write_log", "write_tool_log"} => ~calls[k].result.raised

\* C18 for write_log on a string name: opening and writing failures are swallowed
C18_WriteLogSwallowsIO ==
    \A k \in 1..Len(calls) :
        (calls[k].fn = "write_log" /\ calls[k].input.tool_name.str) => ~calls[k].result.raised

(***************************************************************************)
(* C20: two distinct tool names never share a log file: the file derived   *)
(* from the name (lowercase, spaces replaced by underscores) differs for   *)
(* any two distinct names.  Violated: names that differ only in letter     *)
(* case, or in a space against an underscore, give the same file.          *)
(***************************************************************************)
C20_DistinctNamesDistinctLogs ==
    \A a, b \in 1..Len(calls) :
        ( /\ calls[a].fn \in {"write_log", "write_tool_log"}
          /\ calls[b].fn \in {"write_log", "write_tool_log"}
          /\ calls[a].result.path # <<>> /\ calls[b].result.path # <<>>
          /\ calls[a].input.tool_name # calls[b].input.tool_name ) =>
            calls[a].result.path # calls[b].result.path

\* the same character up to letter case, a space counting as an underscore
SameFolded(c1, c2) ==
    LowerChar(IF c1 = " " THEN "_" ELSE c1) = LowerChar(IF c2 = " " THEN "_" ELSE c2)

\* C20 for names that differ in more than letter case and space against underscore
C20_DistinctFoldedNamesDistinctLogs ==
    \A a, b \in 1..Len(calls) :
        ( /\ calls[a].fn \in {"write_log", "write_tool_log"}
          /\ calls[b].fn \in {"write_log", "write_tool_log"}
          /\ calls[a].result.path # <<>> /\ calls[b].result.path # <<>> ) =>
            LET n1 == calls[a].input.tool_name.v
                n2 == calls[b].input.tool_name.v
            IN  (calls[a].result.path = calls[b].result.path) <=>
                    (Len(n1) = Len(n2) /\ \A k \in 1..Len(n1) : SameFolded(n1[k], n2[k]))

Mutable(value) == value.ty \in {"dict", "list"}

\* the default keys whose value is a dict or a list
MutableDefaults ==
    {<<DEFAULT_CONFIG.pairs[n].key>> : n \in {m \in 1..Len(DEFAULT_CONFIG.pairs) :
                                                  Mutable(DEFAULT_CONFIG.pairs[m].val)}}

\* cfg[k][subk] = subv, line 104: the sub-keys that get the default's own object
SharedSubKeys(cfg, k) ==
    LET v == PyGetItem(DEFAULT_CONFIG, k).value
        sub == PyGetItem(cfg, k).value
    IN  {<<k, v.pairs[n].key>> : n \in {m \in 1..Len(v.pairs) :
                                           /\ ~PyIn(v.pairs[m].key, sub).value
                                           /\ Mutable(v.pairs[m].val)}}

\* load_config(): the paths at which the returned registry holds DEFAULT_CONFIG's objects.
\* DEFAULT_CONFIG.copy() (lines 108, 115) copies the top level only; cfg[k] = v (line 99)
\* and cfg[k][subk] = subv (line 104) store the default's object itself.
load_config_shared(d) ==
    LET p == JsonLoadValue(d[CONFIG_PATH])
        m == MergeDefaults(p.value, DEFAULT_CONFIG.pairs)
    IN  IF ~Exists(d, CONFIG_PATH) THEN MutableDefaults
        ELSE IF p.raised \/ m.raised THEN MutableDefaults
        ELSE {path \in MutableDefaults : ~PyIn(path[1], p.value).value}
             \cup UNION {SharedSubKeys(p.value, path[1]) :
                            path \in {q \in MutableDefaults :
                                         /\ PyIn(q[1], p.value).value
                                         /\ PyGetItem(DEFAULT_CONFIG, q[1]).value.ty = "dict"}}

\* changes a user of the registry can make to it
RegistryChanges ==
    { [op |-> "set", path |-> <<tools_key, Kismet>>, v |-> CList(<<CStr(<<"k","i","s","m","e","t">>)>>)],
      [op |-> "set", path |-> <<paths_key, nmap_path>>, v |-> CStr(<<"/","n">>)],
      [op |-> "append", path |-> <<tools_key, Nmap>>, v |-> CStr(<<"-","s","V">>)],
      [op |-> "append", path |-> <<run_as_admin_required>>, v |-> CStr(<<"n","m","a","p">>)] }

\* the object a change writes into: root[k] for root[k][subk] = v and for root[k].append(v),
\* root[k][subk] for root[k][subk].append(v)
Applicable(root, change) ==
    LET top == PyGetItem(root, change.path[1])
    IN  /\ ~top.raised
        /\ IF change.op = "set" THEN top.value.ty = "dict"
           ELSE IF Len(change.path) = 1 THEN top.value.ty = "list"
           ELSE /\ top.value.ty = "dict"
                /\ ~PyGetItem(top.value, change.path[2]).raised
                /\ PyGetItem(top.value, change.path[2]).value.ty = "list"

\* root after the change
Changed(root, change) ==
    LET k == change.path[1]
        top == PyGetItem(root, k).value
    IN  IF change.op = "set"
        THEN ReplaceKey(root, k, ReplaceKey(top, change.path[2], change.v))
        ELSE IF Len(change.path) = 1
        THEN ReplaceKey(root, k, CList(Append(top.items, change.v)))
        ELSE ReplaceKey(root, k,
                 ReplaceKey(top, change.path[2],
                     CList(Append(PyGetItem(top, change.path[2]).value.items, change.v))))

\* the object written into is one DEFAULT_CONFIG holds too
WritesShared(shared, change) ==
    \/ <<change.path[1]>> \in shared
    \/ change.op = "append" /\ change.path \in shared

\* CONFIG = load_config(), line 117
StartUp ==
    /\ pc = "startup"
    /\ LET r == load_config(disk)
       IN  /\ heap' = [defaults |-> heap.defaults,
                       registry |-> <<[cfg |-> r.cfg, shared |-> load_config_shared(disk)]>>]
           /\ disk' = r.disk
    /\ pc' = "running"
    /\ UNCHANGED <<CONFIG, PATH, exec_files, now, ops, tool_list, i, summary,
                   disk0, run_base, last_call, workers, wr, calls>>

\* an engine operation: each only reads the registry (CONFIG.get at lines 235-399; run_tool_cli
\* and launch_tool_gui build final_cmd as a new list, validate_environment builds `missing`)
EngineReads ==
    /\ pc = "running" /\ Len(calls) < MaxCalls
    /\ \E op \in {"run_tool_cli", "run_tool_cli extra_args", "launch_tool_gui", "run_all_cli",
                  "validate_environment", "mini_port_scanner"} :
         calls' = Append(calls, [fn |-> op])
    /\ UNCHANGED <<CONFIG, PATH, exec_files, disk, now, ops, tool_list, i, summary,
                   disk0, run_base, last_call, workers, wr, pc, heap>>

\* a later change of the registry by its holder
RegistryChange ==
    /\ pc = "running" /\ ops > 0
    /\ ops' = ops - 1
    /\ \E change \in RegistryChanges :
         LET reg == heap.registry[1]
         IN  /\ Applicable(reg.cfg, change)
             /\ heap' = [defaults |-> IF WritesShared(reg.shared, change)
                                      THEN Changed(heap.defaults, change) ELSE heap.defaults,
                         registry |-> <<[cfg |-> Changed(reg.cfg, change),
                                         shared |-> IF change.op = "set"
                                                    THEN reg.shared \ {change.path}
                                                    ELSE reg.shared]>>]
    /\ UNCHANGED <<CONFIG, PATH, exec_files, disk, now, tool_list, i, summary,
                   disk0, run_base, last_call, workers, wr, pc, calls>>

InitAlias ==
    /\ CONFIG = RegistryWith(PyList(<<>>))
    /\ pc = "startup"
    /\ PATH = {"nmap", "sparta"}
    /\ exec_files = {"/opt/nmap/nmap"}
    /\ disk \in {(RESULTS_JSON :> JsonDump(<<>>))}
                \cup {(CONFIG_PATH :> f) @@ (RESULTS_JSON :> JsonDump(<<>>)) : f \in ConfigFiles}
    /\ now = 1
    /\ ops = MaxOps
    /\ disk0 = disk
    /\ tool_list = <<>>
    /\ i = 0
    /\ summary = <<>>
    /\ run_base = <<>>
    /\ last_call = <<>>
    /\ workers = [w \in 1..NumWorkers |-> IdleWorker]
    /\ wr = NoWrite
    /\ calls = <<>>
    /\ heap = [defaults |-> DEFAULT_CONFIG, registry |-> <<>>]

NextAlias == StartUp \/ EngineReads \/ RegistryChange

SpecAlias == InitAlias /\ [][NextAlias]_vars

(***************************************************************************)
(* C21: the registry is immutable after start-up: no engine operation      *)
(* changes CONFIG or DEFAULT_CONFIG, and the registry load_config returned *)
(* shares no mutable object with DEFAULT_CONFIG, so that no later change   *)
(* of the registry alters the hard-coded defaults.  Violated: the registry *)
(* holds DEFAULT_CONFIG's own nested dicts and lists (shallow copy, merge  *)
(* by reference), and a change of the registry changes DEFAULT_CONFIG.     *)
(***************************************************************************)
C21_RegistryImmutable ==
    [][ /\ (Len(calls') > Len(calls)) => (heap' = heap /\ CONFIG' = CONFIG)
        /\ (heap.defaults = DEFAULT_CONFIG) => (heap'.defaults = DEFAULT_CONFIG) ]_vars

\* C21 for the engine operations alone
C21_EngineLeavesRegistry ==
    [][ (Len(calls') > Len(calls)) => (heap' = heap /\ CONFIG' = CONFIG) ]_vars

(***************************************************************************)
(* Output initialisation: the launcher's module start-up and               *)
(* Script/init_output.py                                                   *)
(***************************************************************************)
GITKEEP_OUTPUT == [dir |-> "output", name |-> <<".","g","i","t","k","e","e","p">>]
GITKEEP_LOGS == [dir |-> "output/logs", name |-> <<".","g","i","t","k","e","e","p">>]

\* open(p, "w").close() for a p that does not exist
Touch(d, p) == IF ~Exists(d, p) THEN WriteFile(d, p, <<>>) ELSE d

\* init_output.ensure_dirs
ensure_dirs(d) == Touch(Touch(d, GITKEEP_OUTPUT), GITKEEP_LOGS)

\* faulty variant: the ledger is written whether or not it exists
ensure_results_json_rewrite(d, io) ==
    IF io = "ok" THEN [raised |-> FALSE, disk |-> WriteFile(d, RESULTS_JSON, JsonDump(<<>>))]
    ELSE [raised |-> TRUE, disk |-> d]

\* init_output.ensure_results_json; io is what open(RESULTS_FILE, "w") does
ensure_results_json(d, io) ==
    IF ~Exists(d, RESULTS_JSON)
    THEN IF io = "ok" THEN [raised |-> FALSE, disk |-> WriteFile(d, RESULTS_JSON, JsonDump(<<>>))]
         ELSE [raised |-> TRUE, disk |-> d]               \* OSError leaves main
    ELSE [raised |-> FALSE, disk |-> d]

\* init_output.main
init_output_main(d, io) == ensure_results_json(ensure_dirs(d), io)

\* tool_launcher lines 40-47: the failure of open or json.dump is swallowed
output_setup(d, io) ==
    IF ~Exists(d, RESULTS_JSON)
    THEN IF io = "ok" THEN [raised |-> FALSE, disk |-> WriteFile(d, RESULTS_JSON, JsonDump(<<>>))]
         ELSE [raised |-> FALSE, disk |-> d]
    ELSE [raised |-> FALSE, disk |-> d]

\* the launcher is started
CallOutputSetup ==
    /\ pc = "init_output" /\ Len(calls) < MaxCalls
    /\ \E io \in {"ok", "OSError"} :
         LET r == output_setup(disk, io)
         IN  /\ calls' = Append(calls, [fn |-> "output_setup", io |-> io, raised |-> r.raised,
                                        before |-> FileOf(disk), after |-> FileOf(r.disk),
                                        again |-> FileOf(output_setup(r.disk, io).disk)])
             /\ disk' = r.disk
    /\ UNCHANGED <<CONFIG, PATH, exec_files, now, ops, tool_list, i, summary,
                   disk0, run_base, last_call, workers, wr, pc, heap>>

\* python init_output.py
CallInitOutputMain ==
    /\ pc = "init_output" /\ Len(calls) < MaxCalls
    /\ \E io \in {"ok", "OSError"} :
         LET r == init_output_main(disk, io)
         IN  /\ calls' = Append(calls, [fn |-> "init_output.main", io |-> io, raised |-> r.raised,
                                        before |-> FileOf(disk), after |-> FileOf(r.disk),
                                        again |-> FileOf(init_output_main(r.disk, io).disk)])
             /\ disk' = r.disk
    /\ UNCHANGED <<CONFIG, PATH, exec_files, now, ops, tool_list, i, summary,
                   disk0, run_base, last_call, workers, wr, pc, heap>>

\* between two initialisations the engine records a run
InitAppendResult ==
    /\ pc = "init_output" /\ now <= MaxAppends
    /\ disk' = append_result(disk, [tool |-> Nmap, time |-> now, launched |-> TRUE])
    /\ now' = now + 1
    /\ UNCHANGED <<CONFIG, PATH, exec_files, ops, tool_list, i, summary,
                   disk0, run_base, last_call, workers, wr, pc, heap, calls>>

InitInit ==
    /\ CONFIG = RegistryWith(PyList(<<>>))
    /\ pc = "init_output"
    /\ PATH = {"nmap", "sparta"}
    /\ exec_files = {"/opt/nmap/nmap"}
    /\ disk \in LedgerChoices
    /\ InitFnLocals

NextInit == CallOutputSetup \/ CallInitOutputMain \/ InitAppendResult

SpecInit == InitInit /\ [][NextInit]_vars

(***************************************************************************)
(* C22: initialisation is idempotent and never destroys history: however   *)
(* often the launcher's start-up or init_output.main runs, the ledger is   *)
(* created as the empty array only when the file does not exist, an        *)
(* existing ledger file is left exactly as it was, and running the         *)
(* initialisation again changes nothing.                                   *)
(***************************************************************************)
C22_InitPreservesLedger ==
    \A n \in 1..Len(calls) :
        LET c == calls[n]
        IN  /\ (c.before # <<>>) => (c.after = c.before)
            /\ (c.before = <<>>) => (c.after \in {<<>>, <<JsonDump(<<>>)>>})
            /\ (c.before = <<>> /\ c.io = "ok") => (c.after = <<JsonDump(<<>>)>>)
            /\ c.again = c.after

\* one initialisation created the ledger, a later one found records in it
C22_Witness ==
    \E m, n \in 1..Len(calls) :
        /\ m < n
        /\ calls[m].before = <<>> /\ calls[m].after = <<JsonDump(<<>>)>>
        /\ calls[n].fn = "init_output.main" /\ ~calls[n].raised
        /\ Len(calls[n].before[1]) > 2
        /\ calls[n].after = calls[n].before

(***************************************************************************)
(* run_all_cli(tool_list) called with an explicit list                     *)
(***************************************************************************)
\* line 399: tool_list = tool_list or list(CONFIG.get("tools", {}).keys())
tool_list_or_keys(arg) == IF arg # <<>> THEN arg ELSE Keys(CONFIG.tools)

\* the lists tried: empty, in and against the registry's order, with a tool the
\* registry does not have, with a tool twice
ToolLists == {<<>>, <<Nmap>>, <<QualysGuard, Nmap>>, <<Kismet, Nmap>>, <<Nmap, Nmap>>}

\* run_all_cli(L), lines 398-400; RunAllIter and RunAllFinish are its loop and its end
CallRunAllCli ==
    /\ pc \in {"call_run_all", "run_all_done"} /\ Len(calls) < MaxCalls
    /\ \E L \in ToolLists :
         /\ calls' = Append(calls, [fn |-> "run_all_cli", tool_list |-> L])
         /\ tool_list' = tool_list_or_keys(L)
    /\ summary' = <<>>
    /\ i' = 1
    /\ run_base' = append_result_read(disk)
    /\ pc' = "run_all"
    /\ UNCHANGED <<CONFIG, PATH, exec_files, disk, now, ops, disk0, last_call, workers, wr, heap>>

InitRunAll ==
    /\ CONFIG = RegistryWith(PyList(<<>>))
    /\ pc = "call_run_all"
    /\ PATH = {"nmap", "sparta"}
    /\ exec_files = {"/opt/nmap/nmap"}
    /\ disk = (RESULTS_JSON :> JsonDump(<<>>))
    /\ InitFnLocals

NextRunAll == CallRunAllCli \/ RunAllIter \/ RunAllFinish

SpecRunAll == InitRunAll /\ [][NextRunAll]_vars

\* the list the running or finished call of run_all_cli was given
GivenList == calls[Len(calls)].tool_list

\* the tools named by the summary, in its order
SummaryTools == [k \in 1..Len(summary) |-> summary[k].tool]

(***************************************************************************)
(* C23: run_all_cli called with an explicit list L processes exactly the   *)
(* tools of L in the order of L: the summary it returns has len(L)         *)
(* entries whose tool names are those of L position by position, for every *)
(* L, the empty list and lists naming tools the registry lacks included.   *)
(* Violated for the empty list, which is replaced by the registry's keys.  *)
(***************************************************************************)
C23_ExplicitListProcessed ==
    (pc = "run_all_done") => (SummaryTools = GivenList)

\* C23 for the lists that are not empty
C23_NonEmptyListProcessed ==
    (pc = "run_all_done" /\ GivenList # <<>>) => (SummaryTools = GivenList)

\* a list with a tool the registry lacks was processed to its end
C23_AbsentToolProcessed ==
    pc = "run_all_done" /\ GivenList = <<Kismet, Nmap>> /\ SummaryTools = GivenList

=============================================================================
